---- MODULE Spec2Model ----
(***************************************************************************)
(* Failover selection engine of iptv_failover: the StreamChecker store     *)
(* (stream_groups, current_index, lock) of src/stream_checker.py and the   *)
(* threads of src/app.py that drive it: a request thread serving            *)
(* /playlist.m3u (get_active_streams), a request thread serving             *)
(* /failover/<channel> (mark_stream_failed), the auto_reload_m3u thread     *)
(* (update_config) and the background_monitor thread.                       *)
(*                                                                         *)
(* Python indexes are 0-based and are kept 0-based here; a TLA+ sequence    *)
(* is 1-based, so entries[idx] of the code is entries[idx + 1] below.       *)
(***************************************************************************)
EXTENDS Integers, Sequences, FiniteSets, TLC

\* Longest candidate list that ingestion builds for channel "a".
MaxLen == 3

\* Longest candidate list that ingestion builds for any other channel.
MaxLenOther == 1

\* Channel names that ingestion can produce.
Channels == {"a", "b"}

\* A name that no table ever holds (argument of /failover/<channel>).
UnknownChannel == "x"

ChannelNames == Channels \cup {UnknownChannel}

\* No /failover/<channel> call is inside mark_stream_failed.
NoChannel == "-"

\* dict iteration order of stream_groups (insertion order of the config).
ChannelOrder == <<"a", "b">>

\* The threads of the process.
SEL == "selector"
REP == "reporter"
LOAD == "reloader"
MON == "monitor"
Threads == {SEL, REP, LOAD, MON}
NoThread == "none"

\* A candidate entry is identified by its url; the list of the first n urls
\* that ingestion finds for a channel.
EntryList(n) == [i \in 1..n |-> i]

MaxLenOf(g) == IF g = "a" THEN MaxLen ELSE MaxLenOther

CandidateLists(g) == {EntryList(n) : n \in 0..MaxLenOf(g)}

\* Every {"channels": {...}} that ingestion can hand over.
Tables ==
    UNION {{t \in [D -> UNION {CandidateLists(g) : g \in D}] :
               \A g \in D : t[g] \in CandidateLists(g)} : D \in SUBSET Channels}

EmptyMap == << >>

\* The entry has no url: a dict without the key 'url', or the raw value None.
NoUrl == 0

\* requests.get raised an exception that is not a Timeout.
TransportException == [kind |-> "exception", status |-> 0]

\* No call of _is_stream_working is followed.
NoProbe ==
    [pos |-> "idle", entry |-> [is_dict |-> FALSE, url |-> NoUrl],
     transport |-> TransportException, value |-> FALSE]

\* No ThreadPoolExecutor is open.
NoPool ==
    [total |-> 0, to_submit |-> 0, queued |-> 0, running |-> 0, done |-> 0,
     threads |-> 0, idle |-> 0]

VARIABLES
    config,             \* self.config["channels"]
    stream_groups,      \* self.stream_groups: channel -> list of entries
    current_index,      \* self.current_index: channel -> index
    lock,               \* holder of self.lock, or NoThread
    pc,                 \* position of each thread
    groups_to_process,  \* get_active_streams: the snapshot of step 1
    new_current_indices,   \* get_active_streams: index updates of step 3
    active_working_streams,\* get_active_streams: the mapping it returns
    streams_to_check,   \* background_monitor: entries still to probe this tick
    failed_channel,     \* failover_channel: the channel of the running call
    raised,             \* TRUE once an operation raised an exception
    probe,              \* a call of _is_stream_working: input, position, result
    pool                \* the ThreadPoolExecutor of step 2

vars == <<config, stream_groups, current_index, lock, pc, groups_to_process,
          new_current_indices, active_working_streams, streams_to_check,
          failed_channel, raised, probe, pool>>

----------------------------------------------------------------------------
\* dict.get(key, default)
Get(d, key, default) == IF key \in DOMAIN d THEN d[key] ELSE default

\* load_stream_groups: setdefault(name, 0) on an empty current_index.
LoadStreamGroups(channels) == [g \in DOMAIN channels |-> 0]

\* start_index = current_idx_val if 0 <= current_idx_val < len(entries) else 0
StartIndex(current_idx_val, n) ==
    IF 0 <= current_idx_val /\ current_idx_val < n THEN current_idx_val ELSE 0

\* Step 1 of get_active_streams: groups without entries are skipped.
SnapshotGroups(sg, ci) ==
    [g \in {h \in DOMAIN sg : Len(sg[h]) > 0} |->
        [entries |-> sg[g],
         start_index |-> StartIndex(Get(ci, g, 0), Len(sg[g])),
         num_entries |-> Len(sg[g])]]

\* The for-loop of step 3: first idx_to_try = (start_index + i) % num_entries
\* with a successful probe, -1 when the loop ends without a break.
RECURSIVE ScanFrom(_, _, _, _)
ScanFrom(results_for_group, start_index, num_entries, i) ==
    IF i >= num_entries THEN -1
    ELSE LET idx_to_try == (start_index + i) % num_entries IN
         IF results_for_group[idx_to_try + 1] THEN idx_to_try
         ELSE ScanFrom(results_for_group, start_index, num_entries, i + 1)

\* The scan of step 3 started at index 0 instead of start_index.
ChosenIndexFromZero(group_data, results_for_group) ==
    ScanFrom(results_for_group, 0, group_data.num_entries, 0)

\* The scan of step 3 started behind start_index.
ChosenIndexSkippingCurrent(group_data, results_for_group) ==
    ScanFrom(results_for_group,
             (group_data.start_index + 1) % group_data.num_entries,
             group_data.num_entries, 0)

ChosenIndex(group_data, results_for_group) ==
    ScanFrom(results_for_group, group_data.start_index, group_data.num_entries, 0)

\* Step 3 resetting the index of a group without a working entry to 0.
NewCurrentIndicesResetting(gtp, gcr) ==
    [g \in DOMAIN gtp |->
        IF ChosenIndex(gtp[g], gcr[g]) # -1 THEN ChosenIndex(gtp[g], gcr[g]) ELSE 0]

\* new_current_indices after step 3.
NewCurrentIndices(gtp, gcr) ==
    [g \in {h \in DOMAIN gtp : ChosenIndex(gtp[h], gcr[h]) # -1} |->
        ChosenIndex(gtp[g], gcr[g])]

\* A group without a working entry is returned with its start entry.
ActiveWorkingStreamsGuessing(gtp, gcr) ==
    [g \in DOMAIN gtp |->
        IF ChosenIndex(gtp[g], gcr[g]) # -1
        THEN gtp[g].entries[ChosenIndex(gtp[g], gcr[g]) + 1]
        ELSE gtp[g].entries[gtp[g].start_index + 1]]

\* active_working_streams after step 3: the value get_active_streams returns.
ActiveWorkingStreams(gtp, gcr) ==
    [g \in {h \in DOMAIN gtp : ChosenIndex(gtp[h], gcr[h]) # -1} |->
        gtp[g].entries[ChosenIndex(gtp[g], gcr[g]) + 1]]

\* Step 4 without `if group_name in self.stream_groups`.
CommitIndicesUnchecked(sg, ci, new_indices) ==
    [g \in DOMAIN ci \cup DOMAIN new_indices |->
        IF g \in DOMAIN new_indices THEN new_indices[g] ELSE ci[g]]

\* Step 4: the index of a group is stored only if the group still exists.
CommitIndices(sg, ci, new_indices) ==
    LET kept == {g \in DOMAIN new_indices : g \in DOMAIN sg} IN
    [g \in DOMAIN ci \cup kept |->
        IF g \in kept THEN new_indices[g] ELSE ci[g]]

\* mark_stream_failed advancing without the modulo.
MarkStreamFailedNoWrap(sg, ci, channel) ==
    IF channel \notin DOMAIN sg
    THEN [current_index |-> ci, raised |-> FALSE]
    ELSE LET current == Get(ci, channel, 0)
             total == Len(sg[channel])
         IN IF total > 0
            THEN [current_index |->
                      [g \in DOMAIN ci \cup {channel} |->
                          IF g = channel THEN current + 1 ELSE ci[g]],
                  raised |-> FALSE]
            ELSE [current_index |-> ci, raised |-> FALSE]

\* mark_stream_failed without `if total > 0`: ZeroDivisionError on an empty group.
MarkStreamFailedNoZeroGuard(sg, ci, channel) ==
    IF channel \notin DOMAIN sg
    THEN [current_index |-> ci, raised |-> FALSE]
    ELSE LET current == Get(ci, channel, 0)
             total == Len(sg[channel])
         IN IF total = 0
            THEN [current_index |-> ci, raised |-> TRUE]
            ELSE [current_index |->
                      [g \in DOMAIN ci \cup {channel} |->
                          IF g = channel THEN (current + 1) % total ELSE ci[g]],
                  raised |-> FALSE]

\* mark_stream_failed without `if channel not in self.stream_groups: return`:
\* KeyError at self.stream_groups[channel].
MarkStreamFailedNoKnownGuard(sg, ci, channel) ==
    IF channel \notin DOMAIN sg
    THEN [current_index |-> ci, raised |-> TRUE]
    ELSE LET current == Get(ci, channel, 0)
             total == Len(sg[channel])
         IN IF total > 0
            THEN [current_index |->
                      [g \in DOMAIN ci \cup {channel} |->
                          IF g = channel THEN (current + 1) % total ELSE ci[g]],
                  raised |-> FALSE]
            ELSE [current_index |-> ci, raised |-> FALSE]

\* mark_stream_failed rebuilding current_index with the advanced channel alone.
MarkStreamFailedAlone(sg, ci, channel) ==
    IF channel \notin DOMAIN sg
    THEN [current_index |-> ci, raised |-> FALSE]
    ELSE LET current == Get(ci, channel, 0)
             total == Len(sg[channel])
         IN IF total > 0
            THEN [current_index |-> [g \in {channel} |-> (current + 1) % total],
                  raised |-> FALSE]
            ELSE [current_index |-> ci, raised |-> FALSE]

\* mark_stream_failed: the new current_index and whether the call raised.
MarkStreamFailed(sg, ci, channel) ==
    IF channel \notin DOMAIN sg
    THEN [current_index |-> ci, raised |-> FALSE]
    ELSE LET current == Get(ci, channel, 0)
             total == Len(sg[channel])
         IN IF total > 0
            THEN [current_index |->
                      [g \in DOMAIN ci \cup {channel} |->
                          IF g = channel THEN (current + 1) % total ELSE ci[g]],
                  raised |-> FALSE]
            ELSE [current_index |-> ci, raised |-> FALSE]

\* update_config without `self.current_index = {}`: the old entries stay.
MigrateIndicesOntoOld(old_current_index, channels) ==
    [g \in DOMAIN old_current_index \cup DOMAIN channels |->
        IF g \in DOMAIN old_current_index
           /\ (g \notin DOMAIN channels
               \/ old_current_index[g] < Len(channels[g]))
        THEN old_current_index[g]
        ELSE 0]

\* update_config keeping an old index equal to the new length.
MigrateIndicesInclusive(old_current_index, channels) ==
    [g \in DOMAIN channels |->
        IF g \in DOMAIN old_current_index
           /\ old_current_index[g] <= Len(channels[g])
        THEN old_current_index[g]
        ELSE 0]

\* update_config: current_index rebuilt from the old one.
MigrateIndices(old_current_index, channels) ==
    [g \in DOMAIN channels |->
        IF g \in DOMAIN old_current_index
           /\ old_current_index[g] < Len(channels[g])
        THEN old_current_index[g]
        ELSE 0]

\* background_monitor: the current default entry of every non-empty group,
\* in iteration order, as (channel, entry) pairs.
RECURSIVE MonitorSnapshot(_, _, _)
MonitorSnapshot(sg, ci, k) ==
    IF k > Len(ChannelOrder) THEN << >>
    ELSE LET g == ChannelOrder[k] IN
         IF g \in DOMAIN sg /\ Len(sg[g]) > 0
         THEN LET stored == Get(ci, g, 0)
                  idx == IF stored >= Len(sg[g]) THEN 0 ELSE stored
              IN <<[channel |-> g, entry |-> sg[g][idx + 1]]>>
                     \o MonitorSnapshot(sg, ci, k + 1)
         ELSE MonitorSnapshot(sg, ci, k + 1)

----------------------------------------------------------------------------
Init ==
    /\ stream_groups \in Tables
    /\ config = stream_groups
    /\ probe = NoProbe
    /\ pool = NoPool
    /\ current_index = LoadStreamGroups(stream_groups)
    /\ lock = NoThread
    /\ pc = [t \in Threads |->
                IF t = SEL THEN "snapshot_wait"
                ELSE IF t = REP THEN "mark_wait"
                ELSE IF t = LOAD THEN "ingesting"
                ELSE "tick_wait"]
    /\ groups_to_process = EmptyMap
    /\ new_current_indices = EmptyMap
    /\ active_working_streams = EmptyMap
    /\ streams_to_check = << >>
    /\ failed_channel = NoChannel
    /\ raised = FALSE

\* `with self.lock:` entered without waiting for the lock to be free.
AcquireUnguarded(t, from, to) ==
    /\ pc[t] = from
    /\ lock' = t
    /\ pc' = [pc EXCEPT ![t] = to]

\* `with self.lock:` entered by thread t at position from.
Acquire(t, from, to) ==
    /\ pc[t] = from
    /\ lock = NoThread
    /\ lock' = t
    /\ pc' = [pc EXCEPT ![t] = to]

----------------------------------------------------------------------------
\* get_active_streams, called by the thread that serves /playlist.m3u.
\* At "snapshot_wait" a call has reached `with self.lock:` of step 1.

SelAcquireSnapshot ==
    /\ Acquire(SEL, "snapshot_wait", "snapshot_locked")
    /\ UNCHANGED <<config, probe, pool, stream_groups, current_index, groups_to_process,
                   new_current_indices, active_working_streams,
                   streams_to_check, failed_channel, raised>>

\* Step 1 with the probes of step 2 inside `with self.lock:`.
SelSnapshotKeepingLock ==
    /\ pc[SEL] = "snapshot_locked"
    /\ lock = SEL
    /\ LET gtp == SnapshotGroups(stream_groups, current_index) IN
       IF DOMAIN gtp = {}
       THEN /\ groups_to_process' = EmptyMap
            /\ pc' = [pc EXCEPT ![SEL] = "snapshot_wait"]
            /\ lock' = NoThread
       ELSE /\ groups_to_process' = gtp
            /\ pc' = [pc EXCEPT ![SEL] = "probing"]
            /\ lock' = SEL
    /\ UNCHANGED <<config, probe, pool, stream_groups, current_index, new_current_indices,
                   active_working_streams, streams_to_check, failed_channel,
                   raised>>

\* Step 1 and the early return of `if not groups_to_process`.
SelSnapshot ==
    /\ pc[SEL] = "snapshot_locked"
    /\ lock = SEL
    /\ LET gtp == SnapshotGroups(stream_groups, current_index) IN
       IF DOMAIN gtp = {}
       THEN /\ groups_to_process' = EmptyMap
            /\ pc' = [pc EXCEPT ![SEL] = "snapshot_wait"]
       ELSE /\ groups_to_process' = gtp
            /\ pc' = [pc EXCEPT ![SEL] = "probing"]
    /\ lock' = NoThread
    /\ UNCHANGED <<config, probe, pool, stream_groups, current_index, new_current_indices,
                   active_working_streams, streams_to_check, failed_channel, raised>>

\* The probes that step 2 submits: (group_name, original_idx + 1).
SubmittedProbes(gtp) ==
    UNION {{<<g, i>> : i \in 1..gtp[g].num_entries} : g \in DOMAIN gtp}

\* Every group_check_results that step 2 can end with: one verdict per entry,
\* True for the probes that found their stream working.
ProbeOutcomes(gtp) ==
    {[g \in DOMAIN gtp |-> [i \in 1..gtp[g].num_entries |-> <<g, i>> \in working]] :
        working \in SUBSET SubmittedProbes(gtp)}

\* Steps 2 and 3: every entry of every group is probed, each verdict being
\* what _is_stream_working returns for it, and the winners are selected.
\* The snapshot is not read after step 3.
SelProbe ==
    /\ pc[SEL] = "probing"
    /\ \E group_check_results \in ProbeOutcomes(groups_to_process) :
         /\ new_current_indices' =
                NewCurrentIndices(groups_to_process, group_check_results)
         /\ active_working_streams' =
                ActiveWorkingStreams(groups_to_process, group_check_results)
    /\ groups_to_process' = EmptyMap
    /\ pc' = [pc EXCEPT ![SEL] = "selected"]
    /\ UNCHANGED <<config, probe, pool, stream_groups, current_index, lock, streams_to_check, failed_channel, raised>>

\* `if new_current_indices:` is false: return without taking the lock.
SelReturnNoCommit ==
    /\ pc[SEL] = "selected"
    /\ DOMAIN new_current_indices = {}
    /\ pc' = [pc EXCEPT ![SEL] = "snapshot_wait"]
    /\ active_working_streams' = EmptyMap
    /\ UNCHANGED <<config, probe, pool, stream_groups, current_index, lock, groups_to_process,
                   new_current_indices, streams_to_check, failed_channel, raised>>

SelAcquireCommit ==
    /\ DOMAIN new_current_indices # {}
    /\ Acquire(SEL, "selected", "commit_locked")
    /\ UNCHANGED <<config, probe, pool, stream_groups, current_index, groups_to_process,
                   new_current_indices, active_working_streams,
                   streams_to_check, failed_channel, raised>>

\* Step 4 and the return of active_working_streams.
SelCommit ==
    /\ pc[SEL] = "commit_locked"
    /\ lock = SEL
    /\ current_index' =
           CommitIndices(stream_groups, current_index, new_current_indices)
    /\ lock' = NoThread
    /\ pc' = [pc EXCEPT ![SEL] = "snapshot_wait"]
    /\ new_current_indices' = EmptyMap
    /\ active_working_streams' = EmptyMap
    /\ UNCHANGED <<config, probe, pool, stream_groups, groups_to_process, streams_to_check, failed_channel, raised>>

----------------------------------------------------------------------------
\* failover_channel, called by the thread that serves /failover/<channel>.
\* At "mark_wait" a call has reached `with self.lock:` of mark_stream_failed.

RepCall(channel) ==
    /\ Acquire(REP, "mark_wait", "mark_locked")
    /\ failed_channel' = channel
    /\ UNCHANGED <<config, probe, pool, stream_groups, current_index, groups_to_process,
                   new_current_indices, active_working_streams,
                   streams_to_check, raised>>

\* /failover/<channel> with any channel name in the url.
RepAcquire == \E channel \in ChannelNames : RepCall(channel)

RepMark ==
    /\ pc[REP] = "mark_locked"
    /\ lock = REP
    /\ LET r == MarkStreamFailed(stream_groups, current_index, failed_channel) IN
       /\ current_index' = r.current_index
       /\ raised' = (raised \/ r.raised)
    /\ failed_channel' = NoChannel
    /\ lock' = NoThread
    /\ pc' = [pc EXCEPT ![REP] = "mark_wait"]
    /\ UNCHANGED <<config, probe, pool, stream_groups, groups_to_process, new_current_indices,
                   active_working_streams, streams_to_check>>

----------------------------------------------------------------------------
\* auto_reload_m3u: sleep, parse_m3u_files and group_channels, update_config.

LoadIngest ==
    /\ pc[LOAD] = "ingesting"
    /\ pc' = [pc EXCEPT ![LOAD] = "update_wait"]
    /\ UNCHANGED <<config, probe, pool, stream_groups, current_index, lock, groups_to_process,
                   new_current_indices, active_working_streams,
                   streams_to_check, failed_channel, raised>>

LoadAcquire ==
    /\ Acquire(LOAD, "update_wait", "update_locked")
    /\ UNCHANGED <<config, probe, pool, stream_groups, current_index, groups_to_process,
                   new_current_indices, active_working_streams,
                   streams_to_check, failed_channel, raised>>

\* update_config adding the new groups to the old table instead of building
\* new_stream_groups from an empty dict.
UpdateConfigMerging(channels) ==
    /\ pc[LOAD] = "update_locked"
    /\ lock = LOAD
    /\ current_index' = MigrateIndices(current_index, channels)
    /\ config' = channels
    /\ stream_groups' =
           [g \in DOMAIN stream_groups \cup DOMAIN channels |->
               IF g \in DOMAIN channels THEN channels[g] ELSE stream_groups[g]]
    /\ lock' = NoThread
    /\ pc' = [pc EXCEPT ![LOAD] = "ingesting"]
    /\ UNCHANGED <<probe, pool, groups_to_process, new_current_indices,
                   active_working_streams, streams_to_check, failed_channel, raised>>

\* update_config({"channels": channels}), channels being what ingestion built.
UpdateConfig(channels) ==
    /\ pc[LOAD] = "update_locked"
    /\ lock = LOAD
    /\ current_index' = MigrateIndices(current_index, channels)
    /\ config' = channels
    /\ stream_groups' = channels
    /\ lock' = NoThread
    /\ pc' = [pc EXCEPT ![LOAD] = "ingesting"]
    /\ UNCHANGED <<probe, pool, groups_to_process, new_current_indices,
                   active_working_streams, streams_to_check, failed_channel, raised>>

\* The reload with any table of the set ingestion can build.
LoadFrom(tables) == \E channels \in tables : UpdateConfig(channels)

----------------------------------------------------------------------------
\* background_monitor. At "tick_wait" the loop has reached `with self.lock:`.

MonAcquireSnapshot ==
    /\ Acquire(MON, "tick_wait", "tick_locked")
    /\ UNCHANGED <<config, probe, pool, stream_groups, current_index, groups_to_process,
                   new_current_indices, active_working_streams,
                   streams_to_check, failed_channel, raised>>

\* The snapshot with the for-loop inside `with self.lock:`.
MonSnapshotKeepingLock ==
    /\ pc[MON] = "tick_locked"
    /\ lock = MON
    /\ streams_to_check' = MonitorSnapshot(stream_groups, current_index, 1)
    /\ lock' = MON
    /\ pc' = [pc EXCEPT ![MON] = "checking"]
    /\ UNCHANGED <<config, probe, pool, stream_groups, current_index, groups_to_process,
                   new_current_indices, active_working_streams,
                   failed_channel, raised>>

MonSnapshot ==
    /\ pc[MON] = "tick_locked"
    /\ lock = MON
    /\ streams_to_check' = MonitorSnapshot(stream_groups, current_index, 1)
    /\ lock' = NoThread
    /\ pc' = [pc EXCEPT ![MON] = "checking"]
    /\ UNCHANGED <<config, probe, pool, stream_groups, current_index, groups_to_process,
                   new_current_indices, active_working_streams, failed_channel, raised>>

\* One iteration of the for-loop: the probe of the next entry.
MonProbe(is_working) ==
    /\ pc[MON] = "checking"
    /\ streams_to_check # << >>
    /\ IF is_working
       THEN /\ streams_to_check' = Tail(streams_to_check)
            /\ pc' = pc
       ELSE /\ streams_to_check' = streams_to_check
            /\ pc' = [pc EXCEPT ![MON] = "mark_wait"]
    /\ UNCHANGED <<config, probe, pool, stream_groups, current_index, lock, groups_to_process,
                   new_current_indices, active_working_streams, failed_channel, raised>>

MonCheck == \E is_working \in BOOLEAN : MonProbe(is_working)

MonAcquireMark ==
    /\ Acquire(MON, "mark_wait", "mark_locked")
    /\ UNCHANGED <<config, probe, pool, stream_groups, current_index, groups_to_process,
                   new_current_indices, active_working_streams,
                   streams_to_check, failed_channel, raised>>

\* self.mark_stream_failed(channel) called from the loop.
MonMark ==
    /\ pc[MON] = "mark_locked"
    /\ lock = MON
    /\ LET r == MarkStreamFailed(stream_groups, current_index,
                                 Head(streams_to_check).channel) IN
       /\ current_index' = r.current_index
       /\ raised' = (raised \/ r.raised)
    /\ streams_to_check' = Tail(streams_to_check)
    /\ lock' = NoThread
    /\ pc' = [pc EXCEPT ![MON] = "checking"]
    /\ UNCHANGED <<config, probe, pool, stream_groups, groups_to_process, new_current_indices,
                   active_working_streams, failed_channel>>

\* The function returns after time.sleep(interval): no `while True`.
MonSleepReturning ==
    /\ pc[MON] = "checking"
    /\ streams_to_check = << >>
    /\ pc' = [pc EXCEPT ![MON] = "returned"]
    /\ UNCHANGED <<config, probe, pool, stream_groups, current_index, lock,
                   groups_to_process, new_current_indices,
                   active_working_streams, streams_to_check, failed_channel,
                   raised>>

\* time.sleep(interval) after the loop, then the next iteration of `while True`.
MonSleep ==
    /\ pc[MON] = "checking"
    /\ streams_to_check = << >>
    /\ pc' = [pc EXCEPT ![MON] = "tick_wait"]
    /\ UNCHANGED <<config, probe, pool, stream_groups, current_index, lock, groups_to_process,
                   new_current_indices, active_working_streams,
                   streams_to_check, failed_channel, raised>>

----------------------------------------------------------------------------
\* _is_stream_working(entry), followed as one call with its transport outcome.

\* An entry is a dict (is_dict) or a raw url; url is entry['url'] or the raw value.
ProbeEntries == [is_dict : BOOLEAN, url : (1..MaxLen) \cup {NoUrl}]

\* response.status_code values that count as working (line 186).
OkStatus == {200, 301, 302}

\* What requests.get can end with: a response with a status code,
\* requests.exceptions.Timeout, or any other exception.
StatusCodes == OkStatus \cup {204, 206, 304, 403, 404, 500, 503}
TransportOutcomes ==
    {[kind |-> "response", status |-> c] : c \in StatusCodes}
        \cup {[kind |-> "timeout", status |-> 0], TransportException}

\* requests.get raises at once when there is no url to fetch.
OutcomesFor(entry) ==
    IF entry.url = NoUrl THEN {TransportException} ELSE TransportOutcomes

\* The value _is_stream_working returns, or raised when an exception leaves
\* it. entry['url'] raises KeyError for a dict without 'url'; the handler of
\* `except Exception` then formats `url`, which is unbound, and the
\* UnboundLocalError leaves the function.
IsStreamWorking(entry, transport) ==
    IF entry.is_dict /\ entry.url = NoUrl
    THEN [value |-> FALSE, raised |-> TRUE]
    ELSE IF transport.kind = "response" /\ transport.status \in OkStatus
         THEN [value |-> TRUE, raised |-> FALSE]
         ELSE [value |-> FALSE, raised |-> FALSE]

ProbeCall(entry, transport) ==
    /\ probe.pos = "idle"
    /\ probe' = [pos |-> "called", entry |-> entry, transport |-> transport,
                 value |-> FALSE]
    /\ UNCHANGED <<config, stream_groups, current_index, lock, pc,
                   groups_to_process, new_current_indices,
                   active_working_streams, streams_to_check, failed_channel,
                   raised, pool>>

\* A call with any entry and any transport outcome.
ProbeAny ==
    \E entry \in ProbeEntries : \E transport \in OutcomesFor(entry) :
        ProbeCall(entry, transport)

\* The body of _is_stream_working runs to its return or to the exception.
ProbeRun ==
    /\ probe.pos = "called"
    /\ LET r == IsStreamWorking(probe.entry, probe.transport) IN
       probe' = [probe EXCEPT !.pos = IF r.raised THEN "raised" ELSE "returned",
                              !.value = r.value]
    /\ UNCHANGED <<config, stream_groups, current_index, lock, pc,
                   groups_to_process, new_current_indices,
                   active_working_streams, streams_to_check, failed_channel,
                   raised, pool>>

\* The caller has the result; the next call can start.
ProbeEnd ==
    /\ probe.pos \in {"returned", "raised"}
    /\ probe' = NoProbe
    /\ UNCHANGED <<config, stream_groups, current_index, lock, pc,
                   groups_to_process, new_current_indices,
                   active_working_streams, streams_to_check, failed_channel,
                   raised, pool>>

\* Calls of _is_stream_working, one after another, on any store.
ProbeNext == ProbeAny \/ ProbeRun \/ ProbeEnd

ProbeSpec == Init /\ [][ProbeNext]_vars

----------------------------------------------------------------------------
\* Step 2 of get_active_streams, followed as the executor it opens: the
\* probes still to submit, the work items queued, the probes running in
\* worker threads, the probes done, the worker threads started and the
\* workers waiting on an empty queue.

\* max_workers_for_check = 10
max_workers_for_check == 10

\* Most entries, over all groups, that one call probes.
MaxProbes == 12

\* `with ThreadPoolExecutor(max_workers=max_workers_for_check) as executor:`
\* for a snapshot with n entries in all.
PoolOpen(n) ==
    /\ pool = NoPool
    /\ pool' = [NoPool EXCEPT !.total = n, !.to_submit = n]
    /\ UNCHANGED <<config, stream_groups, current_index, lock, pc,
                   groups_to_process, new_current_indices,
                   active_working_streams, streams_to_check, failed_channel,
                   raised, probe>>

\* A snapshot is never empty at step 2 (`if not groups_to_process: return`).
PoolOpenAny == \E n \in 1..MaxProbes : PoolOpen(n)

\* executor.submit without the limit of max_workers.
PoolSubmitUncapped ==
    /\ pool.to_submit > 0
    /\ pool' = [pool EXCEPT
                   !.to_submit = @ - 1,
                   !.queued = @ + 1,
                   !.idle = IF pool.idle > 0 THEN @ - 1 ELSE @,
                   !.threads = IF pool.idle > 0 THEN @ ELSE @ + 1]
    /\ UNCHANGED <<config, stream_groups, current_index, lock, pc,
                   groups_to_process, new_current_indices,
                   active_working_streams, streams_to_check, failed_channel,
                   raised, probe>>

\* executor.submit(self._is_stream_working, entry): the work item is queued;
\* a waiting worker is claimed for it, else a worker thread is started while
\* fewer than max_workers exist.
PoolSubmit ==
    /\ pool.to_submit > 0
    /\ pool' = [pool EXCEPT
                   !.to_submit = @ - 1,
                   !.queued = @ + 1,
                   !.idle = IF pool.idle > 0 THEN @ - 1 ELSE @,
                   !.threads = IF pool.idle > 0 \/ pool.threads >= max_workers_for_check
                               THEN @ ELSE @ + 1]
    /\ UNCHANGED <<config, stream_groups, current_index, lock, pc,
                   groups_to_process, new_current_indices,
                   active_working_streams, streams_to_check, failed_channel,
                   raised, probe>>

\* A worker thread that runs no probe takes the next work item.
WorkerTake ==
    /\ pool.queued > 0
    /\ pool.running < pool.threads
    /\ pool' = [pool EXCEPT !.queued = @ - 1, !.running = @ + 1]
    /\ UNCHANGED <<config, stream_groups, current_index, lock, pc,
                   groups_to_process, new_current_indices,
                   active_working_streams, streams_to_check, failed_channel,
                   raised, probe>>

\* A probe returns (requests.get has timeout=10) and its future completes;
\* a worker that finds the queue empty waits.
WorkerFinish ==
    /\ pool.running > 0
    /\ pool' = [pool EXCEPT
                   !.running = @ - 1,
                   !.done = @ + 1,
                   !.idle = IF pool.queued = 0 THEN @ + 1 ELSE @]
    /\ UNCHANGED <<config, stream_groups, current_index, lock, pc,
                   groups_to_process, new_current_indices,
                   active_working_streams, streams_to_check, failed_channel,
                   raised, probe>>

\* as_completed has yielded every future and the `with` block ends.
PoolClose ==
    /\ pool.total > 0
    /\ pool.done = pool.total
    /\ pool' = NoPool
    /\ UNCHANGED <<config, stream_groups, current_index, lock, pc,
                   groups_to_process, new_current_indices,
                   active_working_streams, streams_to_check, failed_channel,
                   raised, probe>>

PoolNext == PoolOpenAny \/ PoolSubmit \/ WorkerTake \/ WorkerFinish \/ PoolClose

\* The submitting thread and the worker threads keep running.
PoolFairness ==
    /\ WF_vars(PoolSubmit)
    /\ WF_vars(WorkerTake)
    /\ WF_vars(WorkerFinish)

\* The executor of one call after another; the store is not touched.
PoolInit == Init /\ DOMAIN stream_groups = {}

PoolSpec == PoolInit /\ [][PoolNext]_vars /\ PoolFairness

----------------------------------------------------------------------------
\* The steps of the thread serving /playlist.m3u.
SelStep ==
    \/ SelAcquireSnapshot
    \/ SelSnapshot
    \/ SelProbe
    \/ SelReturnNoCommit
    \/ SelAcquireCommit
    \/ SelCommit

\* The steps of the thread serving /failover/<channel>.
RepStep ==
    \/ RepAcquire
    \/ RepMark

\* The steps of the auto_reload_m3u thread.
LoadStep(tables) ==
    \/ LoadIngest
    \/ LoadAcquire
    \/ LoadFrom(tables)

\* The steps of the background_monitor thread.
MonStep ==
    \/ MonAcquireSnapshot
    \/ MonSnapshot
    \/ MonCheck
    \/ MonAcquireMark
    \/ MonMark
    \/ MonSleep

\* The request threads and the reloader, over every table. The monitor changes
\* the store only by calling mark_stream_failed(channel) under the lock; the
\* thread serving /failover/<channel> makes that call for any channel at any
\* time the lock is free, so the stores, snapshots and reloads that occur with
\* the monitor running are those that occur here.
Next == SelStep \/ RepStep \/ LoadStep(Tables)

Spec == Init /\ [][Next]_vars

\* The monitor with the threads whose writes can fall between its snapshot
\* and its mark_stream_failed calls: selection rounds and reloads, over every
\* table.
MonNext == SelStep \/ LoadStep(Tables) \/ MonStep

MonSpec == Init /\ [][MonNext]_vars

----------------------------------------------------------------------------
\* The selection rounds and the monitor with one fixed verdict per candidate:
\* a candidate url either answers every probe or fails every probe. Urls
\* that answer are numbered above 0, urls that fail below 0.

Reachable(entry) == entry > 0

\* The candidate lists of n urls, each url answering or failing.
FixedLists(g) ==
    UNION {{s \in [1..n -> {i : i \in 1..n} \cup {0 - i : i \in 1..n}] :
               \A i \in 1..n : s[i] = i \/ s[i] = 0 - i} : n \in 0..MaxLenOf(g)}

FixedTables ==
    UNION {{t \in [D -> UNION {FixedLists(g) : g \in D}] :
               \A g \in D : t[g] \in FixedLists(g)} : D \in SUBSET Channels}

\* group_check_results when every probe returns the verdict of its url.
FixedResults(gtp) ==
    [g \in DOMAIN gtp |->
        [i \in 1..gtp[g].num_entries |-> Reachable(gtp[g].entries[i])]]

\* Steps 2 and 3 with the fixed verdicts.
SelProbeFixed ==
    /\ pc[SEL] = "probing"
    /\ new_current_indices' =
           NewCurrentIndices(groups_to_process, FixedResults(groups_to_process))
    /\ active_working_streams' =
           ActiveWorkingStreams(groups_to_process, FixedResults(groups_to_process))
    /\ groups_to_process' = EmptyMap
    /\ pc' = [pc EXCEPT ![SEL] = "selected"]
    /\ UNCHANGED <<config, probe, pool, stream_groups, current_index, lock,
                   streams_to_check, failed_channel, raised>>

\* The monitor's probe with the fixed verdict of the entry.
MonCheckFixed ==
    /\ pc[MON] = "checking"
    /\ streams_to_check # << >>
    /\ MonProbe(Reachable(Head(streams_to_check).entry))

FixedInit ==
    /\ stream_groups \in FixedTables
    /\ config = stream_groups
    /\ current_index = LoadStreamGroups(stream_groups)
    /\ lock = NoThread
    /\ pc = [t \in Threads |->
                IF t = SEL THEN "snapshot_wait"
                ELSE IF t = REP THEN "mark_wait"
                ELSE IF t = LOAD THEN "ingesting"
                ELSE "tick_wait"]
    /\ groups_to_process = EmptyMap
    /\ new_current_indices = EmptyMap
    /\ active_working_streams = EmptyMap
    /\ streams_to_check = << >>
    /\ failed_channel = NoChannel
    /\ raised = FALSE
    /\ probe = NoProbe
    /\ pool = NoPool

\* No reload and no failure report: rounds of get_active_streams and the
\* monitor only.
FixedNext ==
    \/ SelAcquireSnapshot
    \/ SelSnapshot
    \/ SelProbeFixed
    \/ SelReturnNoCommit
    \/ SelAcquireCommit
    \/ SelCommit
    \/ MonAcquireSnapshot
    \/ MonSnapshot
    \/ MonCheckFixed
    \/ MonAcquireMark
    \/ MonMark
    \/ MonSleep

\* Both threads keep running, and a thread blocked on the lock gets it.
FixedFairness ==
    /\ WF_vars(SelSnapshot \/ SelCommit)
    /\ WF_vars(SelProbeFixed \/ SelReturnNoCommit)
    /\ WF_vars(MonSnapshot \/ MonMark)
    /\ WF_vars(MonCheckFixed \/ MonSleep)
    /\ SF_vars(SelAcquireSnapshot)
    /\ SF_vars(SelAcquireCommit)
    /\ SF_vars(MonAcquireSnapshot)
    /\ SF_vars(MonAcquireMark)

FixedSpec == FixedInit /\ [][FixedNext]_vars /\ FixedFairness

\* The cursors a table can be stored with: any index that mark_stream_failed
\* or a commit can have left, in range or not.
StoredCursors(sg) ==
    {ci \in [DOMAIN sg -> 0..MaxLen] :
        \A g \in DOMAIN sg : ci[g] < MaxLenOf(g)}

\* Calls of get_active_streams one after another, with the fixed verdicts and
\* no other thread, from any table and any stored cursors.
CallInit ==
    /\ stream_groups \in FixedTables
    /\ config = stream_groups
    /\ current_index \in StoredCursors(stream_groups)
    /\ lock = NoThread
    /\ pc = [t \in Threads |->
                IF t = SEL THEN "snapshot_wait"
                ELSE IF t = REP THEN "mark_wait"
                ELSE IF t = LOAD THEN "ingesting"
                ELSE "tick_wait"]
    /\ groups_to_process = EmptyMap
    /\ new_current_indices = EmptyMap
    /\ active_working_streams = EmptyMap
    /\ streams_to_check = << >>
    /\ failed_channel = NoChannel
    /\ raised = FALSE
    /\ probe = NoProbe
    /\ pool = NoPool

CallNext ==
    \/ SelAcquireSnapshot
    \/ SelSnapshot
    \/ SelProbeFixed
    \/ SelReturnNoCommit
    \/ SelAcquireCommit
    \/ SelCommit

CallSpec == CallInit /\ [][CallNext]_vars

\* One whole get_active_streams call on the store (sg, ci) with the fixed
\* verdicts and no other thread: the mapping it returns and the cursors it
\* leaves.
CallResult(sg, ci) ==
    LET gtp == SnapshotGroups(sg, ci)
        gcr == FixedResults(gtp)
    IN [returned |-> ActiveWorkingStreams(gtp, gcr),
        current_index |-> CommitIndices(sg, ci, NewCurrentIndices(gtp, gcr))]

----------------------------------------------------------------------------
\* Steps named by the properties below.

\* The body of mark_stream_failed runs, for the channel MarkedChannel. The
\* monitor's call (MonMark) runs the same body, MarkStreamFailed.
RepMarks == pc[REP] = "mark_locked" /\ pc'[REP] = "mark_wait"
MarkedChannel == failed_channel

\* The body of update_config runs.
Loads == pc[LOAD] = "update_locked" /\ pc'[LOAD] = "ingesting"

\* Step 4 of get_active_streams runs.
Commits == pc[SEL] = "commit_locked" /\ pc'[SEL] = "snapshot_wait"

\* Step 1 of get_active_streams runs.
Snapshots == pc[SEL] = "snapshot_locked" /\ pc'[SEL] # "snapshot_locked"

\* A thread stands at a `with self.lock:` it has not entered yet.
WaitsForLock(t) ==
    \/ t = SEL /\ pc[t] = "snapshot_wait"
    \/ t = SEL /\ pc[t] = "selected" /\ DOMAIN new_current_indices # {}
    \/ t = REP /\ pc[t] = "mark_wait"
    \/ t = LOAD /\ pc[t] = "update_wait"
    \/ t = MON /\ pc[t] \in {"tick_wait", "mark_wait"}

----------------------------------------------------------------------------
\* C1: in every reachable state every channel of the table with N >= 1
\* candidates has a stored cursor with 0 <= cursor < N.
CursorInRange ==
    \A g \in DOMAIN stream_groups :
        Len(stream_groups[g]) >= 1 =>
            /\ g \in DOMAIN current_index
            /\ 0 <= current_index[g]
            /\ current_index[g] < Len(stream_groups[g])

----------------------------------------------------------------------------
\* The index (c + i) mod N of the smallest i in 0..N-1 whose probe succeeded,
\* -1 when no probe succeeded.
FirstWorking(c, N, verdicts) ==
    LET hits == {i \in 0..(N - 1) : verdicts[((c + i) % N) + 1]} IN
    IF hits = {} THEN -1
    ELSE (c + (CHOOSE i \in hits : \A k \in hits : i <= k)) % N

\* The outcome of a round whose probes returned results, stated from the
\* snapshot gtp: the winners' indices and the mapping returned.
WinnersOf(gtp, results) ==
    {g \in DOMAIN gtp :
        FirstWorking(gtp[g].start_index, gtp[g].num_entries, results[g]) # -1}

\* C2: in a get_active_streams round, every channel with N >= 1 candidates,
\* snapshot cursor c and at least one successful probe is returned mapped to
\* the candidate at j = (c + i) mod N for the smallest i in 0..N-1 whose probe
\* succeeded, and the commit leaves the channel's cursor at j.
SelectionCorrect ==
    [][/\ Snapshots =>
            \A g \in DOMAIN stream_groups :
                Len(stream_groups[g]) >= 1 =>
                    /\ g \in DOMAIN groups_to_process'
                    /\ groups_to_process'[g].entries = stream_groups[g]
                    /\ groups_to_process'[g].num_entries = Len(stream_groups[g])
                    /\ (current_index[g] \in 0..(Len(stream_groups[g]) - 1) =>
                            groups_to_process'[g].start_index = current_index[g])
       /\ Snapshots =>
            \A results \in ProbeOutcomes(groups_to_process') :
                \A g \in WinnersOf(groups_to_process', results) :
                    LET d == groups_to_process'[g]
                        j == FirstWorking(d.start_index, d.num_entries, results[g])
                        returned == ActiveWorkingStreams(groups_to_process', results)
                        indices == NewCurrentIndices(groups_to_process', results)
                    IN /\ g \in DOMAIN returned
                       /\ returned[g] = d.entries[j + 1]
                       /\ g \in DOMAIN indices
                       /\ indices[g] = j
       /\ (pc[SEL] = "probing" /\ pc'[SEL] = "selected") =>
            \E results \in ProbeOutcomes(groups_to_process) :
                /\ DOMAIN new_current_indices' = WinnersOf(groups_to_process, results)
                /\ DOMAIN active_working_streams' = WinnersOf(groups_to_process, results)
                /\ \A g \in WinnersOf(groups_to_process, results) :
                       LET d == groups_to_process[g]
                           j == FirstWorking(d.start_index, d.num_entries, results[g])
                       IN /\ new_current_indices'[g] = j
                          /\ active_working_streams'[g] = d.entries[j + 1]
       /\ Commits =>
            \A g \in DOMAIN new_current_indices :
                g \in DOMAIN stream_groups =>
                    current_index'[g] = new_current_indices[g]
      ]_vars

\* C2, reached: [A fail, B ok, C ok] with cursor 0 selected B, about to commit 1.
SelectionCorrectReached ==
    /\ pc[SEL] = "commit_locked"
    /\ "a" \in DOMAIN new_current_indices
    /\ new_current_indices["a"] = 1
    /\ active_working_streams["a"] = 2
    /\ "a" \in DOMAIN stream_groups
    /\ stream_groups["a"] = EntryList(3)
    /\ current_index["a"] = 0

----------------------------------------------------------------------------
\* C3: update_config gives every channel of the new table the old cursor if
\* the channel was in the old table and old cursor < length of its new
\* candidate list, and 0 otherwise.
CursorMigration ==
    [][Loads =>
        /\ DOMAIN current_index' = DOMAIN stream_groups'
        /\ \A g \in DOMAIN stream_groups' :
               current_index'[g] =
                   IF g \in DOMAIN stream_groups
                      /\ current_index[g] < Len(stream_groups'[g])
                   THEN current_index[g]
                   ELSE 0
      ]_vars

\* C3, reached: update_config runs on a channel whose old cursor is 2.
CursorMigrationReached ==
    /\ pc[LOAD] = "update_locked"
    /\ lock = LOAD
    /\ "a" \in DOMAIN stream_groups
    /\ Len(stream_groups["a"]) = 3
    /\ current_index["a"] = 2

----------------------------------------------------------------------------
\* k consecutive mark_stream_failed(channel) calls.
RECURSIVE AdvanceTimes(_, _, _, _)
AdvanceTimes(sg, ci, channel, k) ==
    IF k = 0 THEN ci
    ELSE AdvanceTimes(sg, MarkStreamFailed(sg, ci, channel).current_index,
                      channel, k - 1)

\* A channel of the table with N >= 1 candidates and a cursor in [0, N).
Rotating(g) ==
    /\ g \in DOMAIN stream_groups
    /\ Len(stream_groups[g]) >= 1
    /\ g \in DOMAIN current_index
    /\ current_index[g] \in 0..(Len(stream_groups[g]) - 1)

\* C4: for a channel with N >= 1 candidates and a cursor in [0, N), each
\* mark_stream_failed call sets cursor to (cursor + 1) mod N, and N
\* consecutive calls return the cursor to its starting value.
AdvanceIsCyclic ==
    [][/\ (RepMarks /\ Rotating(MarkedChannel)) =>
            current_index'[MarkedChannel] =
                (current_index[MarkedChannel] + 1)
                    % Len(stream_groups[MarkedChannel])
       /\ RepMarks =>
          \A g \in DOMAIN stream_groups :
            Rotating(g) =>
                /\ AdvanceTimes(stream_groups, current_index, g,
                                Len(stream_groups[g]))[g] = current_index[g]
                /\ \A k \in 1..(Len(stream_groups[g]) - 1) :
                       AdvanceTimes(stream_groups, current_index, g, k)[g]
                           = (current_index[g] + k) % Len(stream_groups[g])
      ]_vars

\* C4, reached: mark_stream_failed runs on the last of three candidates.
AdvanceIsCyclicReached ==
    /\ pc[REP] = "mark_locked"
    /\ failed_channel = "a"
    /\ "a" \in DOMAIN stream_groups
    /\ Len(stream_groups["a"]) = 3
    /\ current_index["a"] = 2

----------------------------------------------------------------------------
\* C5: a channel whose probes all failed is absent from the mapping that
\* get_active_streams returns, which still holds every channel that had a
\* successful probe, each mapped to an entry.
AllFailOmitted ==
    [][/\ Snapshots =>
            \A results \in ProbeOutcomes(groups_to_process') :
                LET returned == ActiveWorkingStreams(groups_to_process', results) IN
                \A g \in DOMAIN groups_to_process' :
                    IF \A i \in DOMAIN results[g] : ~results[g][i]
                    THEN g \notin DOMAIN returned
                    ELSE /\ g \in DOMAIN returned
                         /\ returned[g] \in
                                {groups_to_process'[g].entries[i] :
                                    i \in DOMAIN groups_to_process'[g].entries}
       /\ (pc[SEL] = "probing" /\ pc'[SEL] = "selected") =>
            \E results \in ProbeOutcomes(groups_to_process) :
                DOMAIN active_working_streams' =
                    {g \in DOMAIN groups_to_process :
                        \E i \in DOMAIN results[g] : results[g][i]}
       /\ (pc[SEL] \in {"selected", "commit_locked"}
             /\ pc'[SEL] \in {"selected", "commit_locked"}) =>
            active_working_streams' = active_working_streams
      ]_vars

\* C5, reached: a round returns channel b alone while channel a has candidates.
AllFailOmittedReached ==
    /\ pc[SEL] = "commit_locked"
    /\ DOMAIN active_working_streams = {"b"}
    /\ "a" \in DOMAIN stream_groups
    /\ Len(stream_groups["a"]) >= 1

----------------------------------------------------------------------------
\* C6: a channel whose candidate list is empty is in no get_active_streams
\* result, and mark_stream_failed on it raises nothing and leaves every
\* candidate list and every cursor unchanged.
EmptyChannelInert ==
    [][/\ Snapshots =>
            \A g \in DOMAIN stream_groups :
                Len(stream_groups[g]) = 0 => g \notin DOMAIN groups_to_process'
       /\ Snapshots =>
            \A results \in ProbeOutcomes(groups_to_process') :
                DOMAIN ActiveWorkingStreams(groups_to_process', results)
                    \subseteq DOMAIN groups_to_process'
       /\ (pc[SEL] = "probing" /\ pc'[SEL] = "selected") =>
            DOMAIN active_working_streams' \subseteq DOMAIN groups_to_process
       /\ (RepMarks
             /\ MarkedChannel \in DOMAIN stream_groups
             /\ Len(stream_groups[MarkedChannel]) = 0) =>
            /\ stream_groups' = stream_groups
            /\ current_index' = current_index
            /\ ~raised'
      ]_vars

\* C6, reached: mark_stream_failed runs on a channel with an empty list.
EmptyChannelInertReached ==
    /\ pc[REP] = "mark_locked"
    /\ failed_channel \in DOMAIN stream_groups
    /\ stream_groups[failed_channel] = << >>

----------------------------------------------------------------------------
\* C7: mark_stream_failed(X) for a name X that is not in the table raises
\* nothing, creates no cursor entry for X and leaves every candidate list and
\* every cursor unchanged.
UnknownChannelNoOp ==
    [][(RepMarks /\ MarkedChannel \notin DOMAIN stream_groups) =>
        /\ stream_groups' = stream_groups
        /\ current_index' = current_index
        /\ MarkedChannel \notin DOMAIN current_index'
        /\ ~raised'
      ]_vars

\* C7, reached: mark_stream_failed runs on a name the table does not hold.
UnknownChannelNoOpReached ==
    /\ pc[REP] = "mark_locked"
    /\ failed_channel = UnknownChannel
    /\ DOMAIN stream_groups = Channels

----------------------------------------------------------------------------
\* Longest candidate list of the tables of the runs with all four threads,
\* which hold channel a alone: the lock is taken and released the same way
\* whatever the table holds, and a channel with a candidate makes each thread
\* take every path to the lock.
MaxLenFair == 1

FairTables ==
    {t \in Tables : DOMAIN t \subseteq {"a"}
                    /\ \A g \in DOMAIN t : Len(t[g]) <= MaxLenFair}

\* Steps that leave a `with self.lock:` block.
Release ==
    \/ SelSnapshot
    \/ SelCommit
    \/ RepMark
    \/ LoadFrom(FairTables)
    \/ MonSnapshot
    \/ MonMark

\* Steps outside the lock that return in bounded time, thread by thread: the
\* probes (each has a timeout) and the return without commit; ingestion; the
\* monitor's probe and its sleep.
SelUnlocked == SelProbe \/ SelReturnNoCommit
LoadUnlocked == LoadIngest
MonUnlocked == MonCheck \/ MonSleep

\* A thread inside a `with self.lock:` block runs on to its end, every thread
\* keeps running outside it, and a thread blocked on the lock, which is
\* released again and again, gets it.
Fairness ==
    /\ WF_vars(Release)
    /\ WF_vars(SelUnlocked)
    /\ WF_vars(LoadUnlocked)
    /\ WF_vars(MonUnlocked)
    /\ SF_vars(SelAcquireSnapshot)
    /\ SF_vars(SelAcquireCommit)
    /\ SF_vars(RepAcquire)
    /\ SF_vars(LoadAcquire)
    /\ SF_vars(MonAcquireSnapshot)
    /\ SF_vars(MonAcquireMark)

FairInit == Init /\ stream_groups \in FairTables

\* All four threads, over the tables of FairTables.
FairNext == SelStep \/ RepStep \/ LoadStep(FairTables) \/ MonStep

FairSpec == FairInit /\ [][FairNext]_vars /\ Fairness

\* No thread stands at a `with self.lock:` while it holds the lock.
NoReentry == \A t \in Threads : WaitsForLock(t) => lock # t

\* C8: no thread tries to acquire the lock while it holds it, and every
\* thread that requests the lock eventually acquires it.
NoLockDeadlock ==
    /\ []NoReentry
    /\ \A t \in Threads : WaitsForLock(t) ~> (lock = t)

\* C8, reached: the monitor requests the lock for mark_stream_failed while
\* the thread of get_active_streams holds it.
NoLockDeadlockReached ==
    /\ pc[MON] = "mark_wait"
    /\ lock = SEL
    /\ pc[SEL] = "commit_locked"

----------------------------------------------------------------------------
\* C9: no thread holds the lock while it probes or ingests.
NoLockAcrossNetwork ==
    /\ pc[SEL] = "probing" => lock # SEL
    /\ (pc[MON] = "checking" /\ streams_to_check # << >>) => lock # MON
    /\ pc[LOAD] = "ingesting" => lock # LOAD

\* C9, reached: both probing threads probe and the reloader ingests.
NoLockAcrossNetworkReached ==
    /\ pc[SEL] = "probing"
    /\ pc[MON] = "checking"
    /\ streams_to_check # << >>
    /\ pc[LOAD] = "ingesting"

----------------------------------------------------------------------------
\* C10: the commit stores nothing for a channel that update_config removed
\* since the snapshot: after it the channel has no cursor entry and no
\* candidate list, and nothing was raised.
VanishedNotCommitted ==
    [][Commits =>
        \A g \in DOMAIN new_current_indices :
            g \notin DOMAIN stream_groups =>
                /\ g \notin DOMAIN current_index'
                /\ g \notin DOMAIN stream_groups'
                /\ ~raised'
      ]_vars

\* C10, reached: the commit runs with an index for a channel that is gone.
VanishedNotCommittedReached ==
    /\ pc[SEL] = "commit_locked"
    /\ \E g \in DOMAIN new_current_indices : g \notin DOMAIN stream_groups

----------------------------------------------------------------------------
\* A thread is inside a `with self.lock:` block.
InLock(t) ==
    pc[t] \in {"snapshot_locked", "commit_locked", "mark_locked",
               "update_locked", "tick_locked"}

\* The commit of step 4 is pending for channel g, which the table holds with
\* at least one candidate.
PendingCommit(g) ==
    /\ g \in DOMAIN new_current_indices
    /\ g \in DOMAIN stream_groups
    /\ Len(stream_groups[g]) >= 1

\* C11: the commit of index j for a channel and one mark_stream_failed for
\* the same channel run one after the other, never interleaved: a thread
\* inside a lock-protected update holds the lock; the commit leaves the
\* cursor at j, from where the advance gives (j + 1) mod N (set, then
\* advance); and after the advance the pending commit gives j (advance, then
\* set).
RaceIsSerial ==
    /\ [](\A t \in Threads : InLock(t) => lock = t)
    /\ [][/\ Commits =>
                \A g \in DOMAIN new_current_indices :
                    PendingCommit(g) =>
                        /\ current_index'[g] = new_current_indices[g]
                        /\ MarkStreamFailed(stream_groups', current_index', g)
                               .current_index[g]
                             = (new_current_indices[g] + 1) % Len(stream_groups[g])
          /\ (RepMarks /\ pc[SEL] = "selected" /\ PendingCommit(MarkedChannel)) =>
                /\ stream_groups' = stream_groups
                /\ new_current_indices' = new_current_indices
                /\ CommitIndices(stream_groups', current_index',
                                 new_current_indices')[MarkedChannel]
                     = new_current_indices[MarkedChannel]
         ]_vars

\* C11, reached: mark_stream_failed runs for channel a while the commit of
\* index 2 for a waits for the lock.
RaceIsSerialReached ==
    /\ pc[SEL] = "selected"
    /\ PendingCommit("a")
    /\ new_current_indices["a"] = 2
    /\ pc[REP] = "mark_locked"
    /\ failed_channel = "a"
    /\ current_index["a"] = 0

----------------------------------------------------------------------------
\* C12: _is_stream_working never raises to its caller, for any entry and any
\* transport outcome, and returns true exactly when a response arrived with
\* status 200, 301 or 302.
ProbeNeverRaises ==
    /\ probe.pos # "raised"
    /\ probe.pos = "returned" =>
           (probe.value <=> (probe.transport.kind = "response"
                             /\ probe.transport.status \in OkStatus))

----------------------------------------------------------------------------
\* C13: during one get_active_streams call at most 10 probes are in flight at
\* the same time, whatever the number of entries, every probe is submitted,
\* queued, running or done, and every submitted probe is eventually done.
ProbesCapped ==
    /\ [](/\ pool.running <= max_workers_for_check
          /\ pool.threads <= max_workers_for_check
          /\ pool.to_submit + pool.queued + pool.running + pool.done = pool.total)
    /\ \A n \in 1..MaxProbes : (pool.total = n) ~> (pool.done = n)

\* C13, reached: 10 probes are in flight and another waits in the queue.
ProbesCappedReached ==
    /\ pool.running = max_workers_for_check
    /\ pool.queued >= 1
    /\ pool.total > max_workers_for_check

----------------------------------------------------------------------------
\* C14: mark_stream_failed(c) for a channel c of the table with N >= 1
\* candidates starts no probe and reads no probe result, advances the cursor
\* of c, and leaves every candidate list and the cursor of every other
\* channel unchanged.
MarkFrame ==
    [][(RepMarks /\ MarkedChannel \in DOMAIN stream_groups
          /\ Len(stream_groups[MarkedChannel]) >= 1) =>
        /\ current_index'[MarkedChannel] =
               (Get(current_index, MarkedChannel, 0) + 1)
                   % Len(stream_groups[MarkedChannel])
        /\ stream_groups' = stream_groups
        /\ config' = config
        /\ DOMAIN current_index' = DOMAIN current_index \cup {MarkedChannel}
        /\ \A g \in DOMAIN current_index \ {MarkedChannel} :
               current_index'[g] = current_index[g]
        /\ UNCHANGED <<groups_to_process, new_current_indices,
                       active_working_streams, streams_to_check, probe, pool>>
        /\ \A t \in Threads \ {REP} : pc'[t] = pc[t]
      ]_vars

\* C14, reached: mark_stream_failed runs on channel a, whose current
\* candidate a selection round has just found working, while channel b has a
\* cursor too.
MarkFrameReached ==
    /\ pc[REP] = "mark_locked"
    /\ failed_channel = "a"
    /\ pc[SEL] = "selected"
    /\ PendingCommit("a")
    /\ Len(stream_groups["a"]) = 3
    /\ new_current_indices["a"] = current_index["a"]
    /\ "b" \in DOMAIN current_index

----------------------------------------------------------------------------
\* The positions of background_monitor inside its `while True` loop.
MonitorLoop == {"tick_wait", "tick_locked", "checking", "mark_wait", "mark_locked"}

----------------------------------------------------------------------------
\* Steps of background_monitor: its snapshot, and a mark_stream_failed call of
\* its loop, for the channel of the entry it has just probed.
MonSnaps == pc[MON] = "tick_locked" /\ pc'[MON] = "checking"
MonMarks == pc[MON] = "mark_locked" /\ pc'[MON] = "checking"
MonMoves == pc'[MON] # pc[MON] \/ streams_to_check' # streams_to_check

\* The channels of the table with at least one candidate.
Stocked == {g \in DOMAIN stream_groups : Len(stream_groups[g]) >= 1}

\* C16: in each tick exactly one candidate is probed for every channel with
\* at least one candidate, the one at the channel's cursor at snapshot time;
\* after a failed probe the cursor changes only by mark_stream_failed (one
\* step forward, mod N), and no other step of the tick changes a cursor.
MonitorProbesCursor ==
    [][/\ MonSnaps =>
            /\ Len(streams_to_check') = Cardinality(Stocked)
            /\ {streams_to_check'[k].channel : k \in DOMAIN streams_to_check'}
                   = Stocked
            /\ \A k \in DOMAIN streams_to_check' :
                   LET g == streams_to_check'[k].channel
                       c == Get(current_index, g, 0)
                   IN /\ c < Len(stream_groups[g])
                      /\ streams_to_check'[k].entry = stream_groups[g][c + 1]
       /\ MonMarks =>
            LET g == Head(streams_to_check).channel IN
            /\ \A h \in DOMAIN current_index \ {g} :
                   h \in DOMAIN current_index'
                   /\ current_index'[h] = current_index[h]
            /\ IF g \in Stocked
               THEN current_index'[g] =
                        (Get(current_index, g, 0) + 1) % Len(stream_groups[g])
               ELSE current_index' = current_index
       /\ (MonMoves /\ ~MonMarks) => current_index' = current_index
       /\ MonMoves => stream_groups' = stream_groups
      ]_vars

----------------------------------------------------------------------------
\* The candidate at the cursor of channel g, which has candidates.
AtCursor(g) ==
    LET c == Get(current_index, g, 0) IN
    stream_groups[g][(IF c < Len(stream_groups[g]) THEN c ELSE 0) + 1]

\* C19: whenever the monitor advances a channel's cursor, the cursor points,
\* just before the advance, at the candidate the monitor probed and found
\* failing in that tick.
MonitorRotatesProbed ==
    [][(MonMarks /\ Head(streams_to_check).channel \in Stocked) =>
        /\ Get(current_index, Head(streams_to_check).channel, 0)
               < Len(stream_groups[Head(streams_to_check).channel])
        /\ AtCursor(Head(streams_to_check).channel) = Head(streams_to_check).entry
      ]_vars

----------------------------------------------------------------------------
\* C17: update_config replaces the table wholesale: after it the store holds
\* exactly the channels of the new table, each with its new candidate list,
\* and a get_active_streams call that starts afterwards snapshots and returns
\* channels of that table only.
WholesaleReplace ==
    /\ [](stream_groups = config)
    /\ [][/\ Loads =>
                /\ config' \in Tables
                /\ DOMAIN stream_groups' = DOMAIN config'
                /\ \A g \in DOMAIN config' : stream_groups'[g] = config'[g]
          /\ Snapshots =>
                /\ DOMAIN groups_to_process' \subseteq DOMAIN config
                /\ \A g \in DOMAIN groups_to_process' :
                       groups_to_process'[g].entries = config[g]
                /\ \A results \in ProbeOutcomes(groups_to_process') :
                       DOMAIN ActiveWorkingStreams(groups_to_process', results)
                           \subseteq DOMAIN config
          /\ (pc[SEL] = "probing" /\ pc'[SEL] = "selected") =>
                DOMAIN active_working_streams' \subseteq DOMAIN groups_to_process
         ]_vars

\* C17, reached: update_config runs on a table of two channels, one of them
\* with three candidates and its cursor on the last.
WholesaleReplaceReached ==
    /\ pc[LOAD] = "update_locked"
    /\ lock = LOAD
    /\ DOMAIN stream_groups = Channels
    /\ Len(stream_groups["a"]) = 3
    /\ Len(stream_groups["b"]) = 1
    /\ current_index["a"] = 2

----------------------------------------------------------------------------
\* A step of get_active_streams.
SelMoves == pc'[SEL] # pc[SEL]

\* C18: get_active_streams changes the cursor only of channels for which it
\* found a winner: a channel whose probes all failed, or that has no
\* candidates, gets no index in step 3 and keeps its cursor through every
\* step of the call, and no step of the call changes a candidate list.
SelectionFrame ==
    [][/\ SelMoves => (stream_groups' = stream_groups /\ config' = config)
       /\ (SelMoves /\ ~Commits) => current_index' = current_index
       /\ Snapshots =>
            \A results \in ProbeOutcomes(groups_to_process') :
                \A g \in DOMAIN stream_groups :
                    (g \notin DOMAIN groups_to_process'
                       \/ \A i \in DOMAIN results[g] : ~results[g][i])
                    => g \notin DOMAIN NewCurrentIndices(groups_to_process', results)
       /\ (pc[SEL] = "probing" /\ pc'[SEL] = "selected") =>
            \E results \in ProbeOutcomes(groups_to_process) :
                new_current_indices' = NewCurrentIndices(groups_to_process, results)
       /\ Commits =>
            /\ DOMAIN current_index \subseteq DOMAIN current_index'
            /\ DOMAIN current_index' \subseteq
                   DOMAIN current_index \cup DOMAIN new_current_indices
            /\ \A g \in DOMAIN current_index \ DOMAIN new_current_indices :
                   current_index'[g] = current_index[g]
      ]_vars

\* C18, reached: the commit runs with a winner for channel b alone while
\* channel a, whose three probes failed, has its cursor on the last candidate.
SelectionFrameReached ==
    /\ pc[SEL] = "commit_locked"
    /\ DOMAIN new_current_indices = {"b"}
    /\ "a" \in DOMAIN stream_groups
    /\ Len(stream_groups["a"]) = 3
    /\ current_index["a"] = 2

----------------------------------------------------------------------------
\* Channel g has a candidate that answers; the cursor of g is on one.
HasWorking(g) ==
    /\ g \in DOMAIN stream_groups
    /\ \E i \in DOMAIN stream_groups[g] : Reachable(stream_groups[g][i])

CursorOnWorking(g) ==
    /\ g \in Stocked
    /\ Get(current_index, g, 0) < Len(stream_groups[g])
    /\ Reachable(AtCursor(g))

\* C20: with fixed verdicts, no reload and no failure report, the cursor of
\* every channel that has a working candidate eventually is, and from then on
\* stays, on a working candidate, the monitor running concurrently with
\* repeated get_active_streams rounds.
EventuallyOnWorking ==
    \A g \in Channels : HasWorking(g) => <>[]CursorOnWorking(g)

----------------------------------------------------------------------------
\* C21: get_active_streams is idempotent under fixed verdicts and no
\* concurrent writer: every call returns and stores what CallResult gives
\* for the store it starts from, and a second call right after it returns
\* the same mapping and leaves every cursor as the first call left it.
SelectionIdempotent ==
    [][/\ Snapshots =>
            LET first == CallResult(stream_groups, current_index)
                second == CallResult(stream_groups, first.current_index)
            IN /\ second.returned = first.returned
               /\ second.current_index = first.current_index
       /\ (Snapshots /\ pc'[SEL] = "snapshot_wait") =>
            /\ CallResult(stream_groups, current_index).returned = EmptyMap
            /\ current_index' = current_index
       /\ (pc[SEL] = "probing" /\ pc'[SEL] = "selected") =>
            active_working_streams' =
                CallResult(stream_groups, current_index).returned
       /\ (pc[SEL] = "selected" /\ pc'[SEL] = "snapshot_wait") =>
            /\ active_working_streams =
                   CallResult(stream_groups, current_index).returned
            /\ current_index' =
                   CallResult(stream_groups, current_index).current_index
       /\ Commits =>
            /\ CallResult(stream_groups, current_index').returned
                   = active_working_streams
            /\ CallResult(stream_groups, current_index').current_index
                   = current_index'
      ]_vars

\* C21, reached: a call commits index 1 for channel a, whose cursor was on
\* the failing last candidate, so the next call starts from another cursor.
SelectionIdempotentReached ==
    /\ pc[SEL] = "commit_locked"
    /\ "a" \in DOMAIN stream_groups
    /\ stream_groups["a"] = <<0 - 1, 2, 0 - 3>>
    /\ current_index["a"] = 2
    /\ "a" \in DOMAIN new_current_indices
    /\ new_current_indices["a"] = 1

----------------------------------------------------------------------------
\* C22: whenever no thread is inside a `with self.lock:` block, the channels
\* that have a cursor in current_index are exactly the channels of
\* stream_groups.
CursorKeysAreChannels ==
    lock = NoThread => DOMAIN current_index = DOMAIN stream_groups

\* C22, reached: no thread holds the lock, a call has chosen an index for
\* channel a and waits to commit it, and an update_config has since replaced
\* the table by one with channel b and without a.
CursorKeysAreChannelsReached ==
    /\ lock = NoThread
    /\ pc[SEL] = "selected"
    /\ pc[LOAD] = "ingesting"
    /\ pc[REP] = "mark_wait"
    /\ DOMAIN new_current_indices = {"a"}
    /\ DOMAIN stream_groups = {"b"}

====
